---- MODULE Spec2Model ----
(***************************************************************************)
(* A model of the Ollama context filter proxy                              *)
(* (src/src/ollama_context_filter_proxy.py).                               *)
(*                                                                         *)
(* Text is modelled by TLA+ strings, character by character: Len, SubSeq   *)
(* and \o act on strings as Python's len, slicing and + do.  A message, a  *)
(* tool or a request body is a function from its keys to its values, so a  *)
(* missing key is a key outside DOMAIN, as in a Python dict.               *)
(*                                                                         *)
(* Four specifications share the definitions of the module:                *)
(*   SpecPrompt  filter_system_prompt applied to a message list, and then  *)
(*               applied again to the messages it returned;                *)
(*   SpecTools   filter_tools applied to a tool list;                      *)
(*   Spec        ProxyHandler.proxy_request handling one request;          *)
(*   SpecServer  main's HTTPServer accepting and serving connections.      *)
(***************************************************************************)
EXTENDS Integers, Sequences, FiniteSets, TLC

VARIABLES
    pc,                 \* where the modelled call or handler stands
    config,             \* the module-level flags of the CONFIGURATION block
    model_name,         \* filter_system_prompt's / filter_tools' model_name
    messages0,          \* the message list as it was when the call was made
    messages,           \* the caller's list object (its dicts are rewritten in place)
    parts,              \* how a structured prompt was put together (text and sections)
    filtered_messages,  \* filter_system_prompt's first result
    filter_stats,       \* filter_system_prompt's second result
    refiltered_messages, \* the result of a second call, on filtered_messages
    tools0,             \* the tool list as it was when filter_tools was called
    tools,              \* the caller's tool list (its dicts are truncated in place)
    filtered_tools,     \* filter_tools' first result
    tool_stats,         \* filter_tools' second result
    request,            \* the inbound request: command, path and body
    body,               \* proxy_request's body, the bytes that go upstream
    data,               \* proxy_request's data, the decoded request
    saved,              \* what the audit sink has written
    sink_log,           \* what the audit sink has printed
    forwarded,          \* the requests sent upstream
    response,           \* the upstream response being streamed
    client,             \* what has been written to the client, in order
    backlog,            \* the server: connections made and not yet accepted
    current,            \* the server: the connection being handled, or 0
    stage               \* the server: how far each connection has come

promptVars == <<model_name, messages0, messages, parts, filtered_messages,
                filter_stats, refiltered_messages>>

toolVars == <<tools0, tools, filtered_tools, tool_stats>>

proxyVars == <<request, body, data, saved, sink_log, forwarded, response, client>>

serverVars == <<backlog, current, stage>>

vars == <<pc, config, promptVars, toolVars, proxyVars, serverVars>>

----------------------------------------------------------------------------
(* Bounds of the model *)

\* the longest message list a call is given
MaxMsgs == 2
\* the most tokens a generated system prompt is put together from
MaxToks == 3
\* the largest elapsed time (ms) the clock can report for one call
MaxElapsedMs == 1
\* the longest tool list a call is given
MaxTools == 2
\* the most chunks an upstream response body is read in
MaxChunks == 2
\* the most connections clients make to the server
MaxConns == 3

----------------------------------------------------------------------------
(* CONFIGURATION *)

SMALL_MODELS ==
    << "llama3.2:1b", "llama3.2-1b", "qwen2.5:1.5b", "qwen2.5-1.5b",
       "qwen3-large", "llama3-groq-tool-use-large", "phi4-mini-large",
       "granite4-large" >>

ESSENTIAL_TOOLS ==
    << "bash", "read", "write", "edit", "grep", "glob", "list", "task",
       "webfetch", "todoread", "todowrite" >>

DEFAULT_CONTEXT_SIZE == 32768

\* the flags as the source sets them
DefaultConfig ==
    [ DISABLE_FILTERING      |-> FALSE,
      SAVE_FILTERED_REQUESTS |-> TRUE,
      ENABLE_TOOL_FILTERING  |-> TRUE,
      REMOVE_DUPLICATE_TOOLS |-> TRUE,
      STRIP_TOOL_DESCRIPTIONS |-> TRUE,
      ESSENTIAL_TOOLS_ONLY   |-> TRUE,
      AUTO_INCREASE_CONTEXT  |-> TRUE ]

----------------------------------------------------------------------------
(* Python's str and dict operations *)

Min(S) == CHOOSE x \in S : \A y \in S : x <= y

Range(s) == { s[i] : i \in 1..Len(s) }

\* dict.get(key, default)
Get(d, key, default) == IF key \in DOMAIN d THEN d[key] ELSE default

\* d[key] = value
Put(d, key, value) ==
    [ k \in (DOMAIN d) \cup {key} |-> IF k = key THEN value ELSE d[k] ]

\* s[from-1:]
From(s, from) == SubSeq(s, from, Len(s))

\* the least index >= from at which pat occurs in s, 0 when there is none
Find(s, pat, from) ==
    LET Least(hits) == IF hits = {} THEN 0 ELSE Min(hits)
    IN  Least({ k \in from..(Len(s) - Len(pat) + 1) :
                    SubSeq(s, k, k + Len(pat) - 1) = pat })

\* pat in s
Contains(s, pat) == Find(s, pat, 1) # 0

\* s.startswith(pat)
StartsWith(s, pat) == Len(s) >= Len(pat) /\ SubSeq(s, 1, Len(pat)) = pat

UpperCase == "ABCDEFGHIJKLMNOPQRSTUVWXYZ"
LowerCase == "abcdefghijklmnopqrstuvwxyz"

LowerChar(c) ==
    LET At(k) == IF k = 0 THEN c ELSE SubSeq(LowerCase, k, k)
    IN  At(Find(UpperCase, c, 1))

RECURSIVE Lower(_)
\* s.lower()
Lower(s) ==
    IF s = "" THEN ""
    ELSE LowerChar(SubSeq(s, 1, 1)) \o Lower(From(s, 2))

\* the characters str.strip() takes for whitespace (those a TLA+ string can hold)
Whitespace == { " ", "\t", "\n", "\r", "\f" }

IsSpaceAt(s, k) == SubSeq(s, k, k) \in Whitespace

\* s.strip()
Strip(s) ==
    LET Between(solid) ==
            IF solid = {} THEN ""
            ELSE SubSeq(s, Min(solid), CHOOSE k \in solid : \A j \in solid : j <= k)
    IN  Between({ k \in 1..Len(s) : ~IsSpaceAt(s, k) })

----------------------------------------------------------------------------
(* estimate_tokens *)

estimate_tokens(text) == Len(text) \div 4

----------------------------------------------------------------------------
(* The regular expressions of filter_system_prompt *)

NoMatch == [ found |-> FALSE, start |-> 0, end |-> 0 ]

\* re.search(open + ".*?" + close, content, flags=re.DOTALL): the leftmost open
\* tag, up to the first close tag that follows it
TagSearch(content, open, close) ==
    LET Span(i, j) ==
            IF i = 0 \/ j = 0 THEN NoMatch
            ELSE [ found |-> TRUE, start |-> i, end |-> j + Len(close) - 1 ]
        Opened(i) ==
            Span(i, IF i = 0 THEN 0 ELSE Find(content, close, i + Len(open)))
    IN  Opened(Find(content, open, 1))

\* match.group(0)
Group0(content, m) == SubSeq(content, m.start, m.end)

RECURSIVE TagSub(_, _, _)
\* re.sub(open + ".*?" + close, "", content, flags=re.DOTALL): no count is
\* given, so every non-overlapping match is replaced, left to right
TagSub(content, open, close) ==
    LET Cut(m) ==
            IF ~m.found THEN content
            ELSE SubSeq(content, 1, m.start - 1)
                     \o TagSub(From(content, m.end + 1), open, close)
    IN  Cut(TagSearch(content, open, close))

InstructionsLabel == "Instructions from:"

\* a mutant of InstructionsSearch: the block ends at the end of the label's line
InstructionsSearch_ToLineEnd(content) ==
    LET Span(i, k) ==
            IF i = 0 THEN NoMatch
            ELSE [ found |-> TRUE, start |-> i,
                   end   |-> IF k = 0 THEN Len(content) ELSE k - 1 ]
        Labelled(i) ==
            Span(i, IF i = 0 THEN 0
                    ELSE Find(content, "\n", i + Len(InstructionsLabel)))
    IN  Labelled(Find(content, InstructionsLabel, 1))

\* re.search(r"Instructions from:.*?(?=\n\n|\Z)", content, flags=re.DOTALL):
\* from the leftmost label up to, and not into, the next blank line, or to the
\* end of the string
InstructionsSearch(content) ==
    LET Span(i, k) ==
            IF i = 0 THEN NoMatch
            ELSE [ found |-> TRUE, start |-> i,
                   end   |-> IF k = 0 THEN Len(content) ELSE k - 1 ]
        Labelled(i) ==
            Span(i, IF i = 0 THEN 0
                    ELSE Find(content, "\n\n", i + Len(InstructionsLabel)))
    IN  Labelled(Find(content, InstructionsLabel, 1))

RECURSIVE InstructionsSub(_)
\* re.sub(r"Instructions from:.*?(?=\n\n|\Z)", "", content, flags=re.DOTALL)
InstructionsSub(content) ==
    LET Cut(m) ==
            IF ~m.found THEN content
            ELSE SubSeq(content, 1, m.start - 1)
                     \o InstructionsSub(From(content, m.end + 1))
    IN  Cut(InstructionsSearch(content))

----------------------------------------------------------------------------
(* filter_system_prompt *)

\* the classifier: any(sm in model_name.lower() for sm in SMALL_MODELS)
IsSmallModel(name) ==
    \E k \in 1..Len(SMALL_MODELS) : Contains(Lower(name), SMALL_MODELS[k])

\* msg.get("role") == "system"
IsSystemMessage(msg) == Get(msg, "role", "None") = "system"

minimal_env ==
    "<env>\n  Working directory: (current directory)\n  Platform: linux\n  Today's date: (current date)\n</env>"

\* one removal step's result: the content it leaves and what it appends to
\* filter_stats["sections_removed"]
Removal(content, removed) == [ content |-> content, removed |-> removed ]

\* "Extract and remove <project> section"
RemoveProject(content) ==
    LET Matched(project_match) ==
            IF project_match.found
            THEN Removal(TagSub(content, "<project>", "</project>"),
                         << [ name |-> "project",
                              size |-> Len(Group0(content, project_match)) ] >>)
            ELSE Removal(content, << >>)
    IN  Matched(TagSearch(content, "<project>", "</project>"))

\* "Extract and remove <env> section"
RemoveEnv(content) ==
    LET Matched(env_match) ==
            IF env_match.found
            THEN Removal(TagSub(content, "<env>", "</env>"),
                         << [ name |-> "env",
                              size |-> Len(Group0(content, env_match)) ] >>)
            ELSE Removal(content, << >>)
    IN  Matched(TagSearch(content, "<env>", "</env>"))

\* "Extract and remove instruction files"
RemoveInstructions(content) ==
    LET Matched(instructions_match) ==
            IF instructions_match.found
            THEN Removal(InstructionsSub(content),
                         << [ name |-> "instructions",
                              size |-> Len(Group0(content, instructions_match)) ] >>)
            ELSE Removal(content, << >>)
    IN  Matched(InstructionsSearch(content))

\* a mutant of AppendMinimalEnv: the remaining content is not stripped
AppendMinimalEnv_NoStrip(content) ==
    IF Strip(content) # "" THEN content \o "\n\n" \o minimal_env
    ELSE minimal_env

\* a mutant of AppendMinimalEnv: the stub starts on the line after the
\* content, without the blank line
AppendMinimalEnv_NoBlankLine(content) ==
    LET Stub(stripped) ==
            IF stripped # "" THEN stripped \o "\n" \o minimal_env
            ELSE minimal_env
    IN  Stub(Strip(content))

\* "Add minimal environment info"
AppendMinimalEnv(content) ==
    LET Stub(stripped) ==
            IF stripped # "" THEN stripped \o "\n\n" \o minimal_env
            ELSE minimal_env
    IN  Stub(Strip(content))

\* the body of the loop for one system message: the three removals in their
\* fixed order, then the stub
RewriteContent(original_content) ==
    LET \* a step applied to what the steps before it left
        Then(before, step) ==
            Removal(step.content, before.removed \o step.removed)
        AfterProject(p)      == Then(p, RemoveEnv(p.content))
        AfterEnv(e)          == Then(e, RemoveInstructions(e.content))
        AfterInstructions(i) == Removal(AppendMinimalEnv(i.content), i.removed)
    IN  AfterInstructions(AfterEnv(AfterProject(RemoveProject(original_content))))

\* filter_stats as it is built before any filtering
InitialStats(msgs, name) ==
    [ is_small_model    |-> IsSmallModel(name),
      sections_removed  |-> << >>,
      original_size     |-> 0,
      filtered_size     |-> 0,
      time_ms           |-> 0,
      total_messages    |-> Len(msgs),
      message_breakdown |-> << >> ]

\* a mutant of LoopStep: a message that is not a system message is not appended
LoopStep_DropsOthers(acc, msg) ==
    LET Rewritten(original_content, r) ==
            [ out   |-> Append(acc.out, Put(msg, "content", r.content)),
              stats |-> [ acc.stats EXCEPT
                            !.original_size    = Len(original_content),
                            !.sections_removed = @ \o r.removed,
                            !.filtered_size    = Len(r.content) ] ]
    IN  IF IsSystemMessage(msg)
        THEN Rewritten(Get(msg, "content", ""),
                       RewriteContent(Get(msg, "content", "")))
        ELSE acc

\* a mutant of LoopStep: the sizes of the system messages are added up
LoopStep_SumsSizes(acc, msg) ==
    LET Rewritten(original_content, r) ==
            [ out   |-> Append(acc.out, Put(msg, "content", r.content)),
              stats |-> [ acc.stats EXCEPT
                            !.original_size    = @ + Len(original_content),
                            !.sections_removed = @ \o r.removed,
                            !.filtered_size    = @ + Len(r.content) ] ]
    IN  IF IsSystemMessage(msg)
        THEN Rewritten(Get(msg, "content", ""),
                       RewriteContent(Get(msg, "content", "")))
        ELSE [ out |-> Append(acc.out, msg), stats |-> acc.stats ]

\* one pass of "for msg_idx, msg in enumerate(messages)": acc holds
\* filtered_messages and filter_stats so far
LoopStep(acc, msg) ==
    LET Rewritten(original_content, r) ==
            [ out   |-> Append(acc.out, Put(msg, "content", r.content)),
              stats |-> [ acc.stats EXCEPT
                            !.original_size    = Len(original_content),
                            !.sections_removed = @ \o r.removed,
                            !.filtered_size    = Len(r.content) ] ]
    IN  IF IsSystemMessage(msg)
        THEN Rewritten(Get(msg, "content", ""),
                       RewriteContent(Get(msg, "content", "")))
        ELSE [ out |-> Append(acc.out, msg), stats |-> acc.stats ]

RECURSIVE FilterLoop(_, _, _)
FilterLoop(msgs, k, acc) ==
    IF k > Len(msgs) THEN acc
    ELSE FilterLoop(msgs, k + 1, LoopStep(acc, msgs[k]))

\* a mutant of filter_system_prompt: DISABLE_FILTERING is not looked at
filter_system_prompt_IgnoresDisable(msgs, name, cfg, elapsed) ==
    LET Filtered(acc) ==
            [ messages |-> acc.out,
              stats    |-> [ acc.stats EXCEPT !.time_ms = elapsed ] ]
        Start(stats) ==
            IF ~stats.is_small_model
            THEN [ messages |-> msgs, stats |-> stats ]
            ELSE Filtered(FilterLoop(msgs, 1, [ out |-> << >>, stats |-> stats ]))
    IN  Start(InitialStats(msgs, name))

\* filter_system_prompt(messages, model_name) under the flags cfg, the clock
\* reporting elapsed ms for the filtering; the result is the pair it returns
filter_system_prompt(msgs, name, cfg, elapsed) ==
    LET Filtered(acc) ==
            [ messages |-> acc.out,
              stats    |-> [ acc.stats EXCEPT !.time_ms = elapsed ] ]
        Start(stats) ==
            IF cfg.DISABLE_FILTERING \/ ~stats.is_small_model
            THEN [ messages |-> msgs, stats |-> stats ]
            ELSE Filtered(FilterLoop(msgs, 1, [ out |-> << >>, stats |-> stats ]))
    IN  Start(InitialStats(msgs, name))

----------------------------------------------------------------------------
(* Values that stand for "nothing yet" *)

NoParts == << >>
\* data is << >> until the body is decoded, then << the dict >>
NoData == << >>
\* the upstream call has not returned
NoResponse == [ outcome |-> "none" ]

\* the server is not part of the specification
NoServer ==
    /\ backlog = << >>
    /\ current = 0
    /\ stage = << >>

\* no request is being handled (the state of the proxy in SpecPrompt and
\* SpecTools)
NoRequest ==
    /\ NoServer
    /\ request = "NoRequest"
    /\ body = ""
    /\ data = NoData
    /\ saved = << >>
    /\ sink_log = << >>
    /\ forwarded = << >>
    /\ response = NoResponse
    /\ client = << >>

----------------------------------------------------------------------------
(* The inputs of SpecPrompt *)

ModelNames == { "llama3.2:1b", "Qwen2.5-1.5B-Instruct", "qwen2.5:7b", "" }

\* what generated system prompts are put together from: plain text, white
\* space, a blank line, the delimiters on their own, and whole sections
Tokens ==
    { "a", " ", "\n\n", "<project>", "</project>", "<env>", "</env>",
      InstructionsLabel, "<project>t</project>", "<env>e</env>" }

RECURSIVE Words(_)
Words(n) ==
    LET Longer(shorter) == shorter \cup { w \o t : w \in shorter, t \in Tokens }
    IN  IF n = 0 THEN { "" } ELSE Longer(Words(n - 1))

\* the end-to-end scenario's system prompt
Scenario == "<project>tree</project><env>e</env>Instructions from: x\nhello"

RichContents == Words(MaxToks) \cup { Scenario }

Roles == { "system", "user", "assistant" }

MsgPool ==
    { [ role |-> r, content |-> c ] : r \in Roles, c \in { "hi", "<env>e</env>k" } }
        \cup { [ role |-> "system" ], [ content |-> "hi" ] }

RECURSIVE Lists(_, _)
Lists(S, n) ==
    LET Longer(shorter) == shorter \cup { Append(l, x) : l \in shorter, x \in S }
    IN  IF n = 0 THEN { << >> } ELSE Longer(Lists(S, n - 1))

\* unrelated text around the sections of a structured prompt
Texts == { "", "a", " b", "c\n" }

ProjectSections      == { "", "<project>t</project>" }
EnvSections          == { "", "<env>e</env>" }
InstructionSections  == { "", "Instructions from: x\ny" }
\* what follows the instruction block starts at a blank line
Tails == { "" } \cup { "\n\n" \o t : t \in Texts }

StructuredParts ==
    [ t0 : Texts, project : ProjectSections, t1 : Texts, env : EnvSections,
      t2 : Texts, instructions : InstructionSections, t3 : Tails ]

Assemble(p) ==
    p.t0 \o p.project \o p.t1 \o p.env \o p.t2 \o p.instructions \o p.t3

\* the text of a structured prompt outside its sections
Outside(p) == p.t0 \o p.t1 \o p.t2 \o p.t3

\* system prompts with an opening tag that no closing tag follows: alone, in
\* text, beside a whole section of the other kind, after a stray closing tag,
\* and with the pieces of a closing tag on the two sides of another section
UnclosedContents ==
    { "<project>", "<env>", "a<project>b", "a <env> b\n", "</env>a<env>b",
      "</project><project>", "<project>x</env>", "<env>e</env><project>p",
      "<project>t</project>a<env>b", "<env>x</e<project>p</project>nv>",
      "<project>p</pro<env>e</env>ject>" }

----------------------------------------------------------------------------
(* SpecPrompt: a call of filter_system_prompt, and a second call on its result *)

InitCall(msgs, name, cfg, p) ==
    /\ pc = "call"
    /\ config = cfg
    /\ model_name = name
    /\ messages0 = msgs
    /\ messages = msgs
    /\ parts = p
    /\ filtered_messages = << >>
    /\ filter_stats = << >>
    /\ refiltered_messages = << >>
    /\ tools0 = << >>
    /\ tools = << >>
    /\ filtered_tools = << >>
    /\ tool_stats = << >>
    /\ NoRequest

\* one system message with a generated prompt, for a small model
InitRich ==
    \E c \in RichContents :
        InitCall(<< [ role |-> "system", content |-> c ] >>, "llama3.2:1b",
                 DefaultConfig, NoParts)

\* any short message list, any model, filtering enabled or disabled
InitLists ==
    \E msgs \in Lists(MsgPool, MaxMsgs), name \in ModelNames, off \in BOOLEAN :
        InitCall(msgs, name, [ DefaultConfig EXCEPT !.DISABLE_FILTERING = off ],
                 NoParts)

\* one system message made of sections with unrelated text around them
InitStructured ==
    \E p \in StructuredParts :
        InitCall(<< [ role |-> "system", content |-> Assemble(p) ] >>,
                 "llama3.2:1b", DefaultConfig, p)

\* one system message with an unclosed section, for a small model
InitUnclosed ==
    \E c \in UnclosedContents :
        InitCall(<< [ role |-> "system", content |-> c ] >>, "llama3.2:1b",
                 DefaultConfig, NoParts)

InitPrompt == InitRich \/ InitLists \/ InitStructured \/ InitUnclosed

\* filtered_messages, filter_stats = filter_system_prompt(messages, model_name).
\* The dicts of system messages are rewritten in place, so the caller's list
\* shows the rewritten contents too.
FilterCall ==
    /\ pc = "call"
    /\ \E elapsed \in 0..MaxElapsedMs :
         \E r \in { filter_system_prompt(messages, model_name, config, elapsed) } :
             /\ filtered_messages' = r.messages
             /\ filter_stats' = r.stats
             /\ messages' = r.messages
    /\ pc' = "filtered"
    /\ UNCHANGED <<serverVars, config, model_name, messages0, parts, refiltered_messages,
                   toolVars, proxyVars>>

\* a second call, on the messages the first call returned (filtered_messages
\* keeps the first result by value)
RefilterCall ==
    /\ pc = "filtered"
    /\ \E elapsed \in 0..MaxElapsedMs :
         \E r \in { filter_system_prompt(filtered_messages, model_name, config,
                                         elapsed) } :
             /\ refiltered_messages' = r.messages
             /\ messages' = r.messages
    /\ pc' = "refiltered"
    /\ UNCHANGED <<serverVars, config, model_name, messages0, parts, filtered_messages,
                   filter_stats, toolVars, proxyVars>>

NextPrompt == FilterCall \/ RefilterCall

SpecPrompt == InitPrompt /\ [][NextPrompt]_vars

----------------------------------------------------------------------------
(* json.dumps, as far as its length goes *)

Max(a, b) == IF a >= b THEN a ELSE b

RECURSIVE SumOver(_, _)
\* the sum of the numbers f[x], x in S
SumOver(f, S) ==
    LET Rest(x) == f[x] + SumOver(f, S \ {x})
    IN  IF S = {} THEN 0 ELSE Rest(CHOOSE x \in S : TRUE)

\* len(json.dumps(s)) for a string of plain characters: the quotes around it
JsonStrLen(s) == Len(s) + 2

\* len(json.dumps(d)) for a dict of strings: braces, "key": value, and ", "
\* between the items
JsonDictLen(d) ==
    2 + SumOver([ k \in DOMAIN d |-> JsonStrLen(k) + 2 + JsonStrLen(d[k]) ], DOMAIN d)
      + 2 * Max(Cardinality(DOMAIN d) - 1, 0)

\* len(json.dumps(tool)): a tool is {} or {"function": {...}}
JsonToolLen(tool) ==
    IF "function" \in DOMAIN tool
    THEN 2 + JsonStrLen("function") + 2 + JsonDictLen(tool["function"])
    ELSE 2

\* len(json.dumps(tools)) for a list of tools
JsonToolsLen(list) ==
    2 + SumOver([ k \in 1..Len(list) |-> JsonToolLen(list[k]) ], 1..Len(list))
      + 2 * Max(Len(list) - 1, 0)

----------------------------------------------------------------------------
(* filter_tools *)

EmptyDict == << >>

\* tool.get("function", {}).get("name", "")
ToolName(tool) == Get(Get(tool, "function", EmptyDict), "name", "")

\* tool.get("function", {}).get("description", "")
ToolDescription(tool) == Get(Get(tool, "function", EmptyDict), "description", "")

\* a mutant of IsEssential: the index_ wrapper of an essential tool passes too
IsEssential_AllowsWrappers(tool_name) ==
    \/ tool_name \in Range(ESSENTIAL_TOOLS)
    \/ /\ StartsWith(tool_name, "index_")
       /\ From(tool_name, 7) \in Range(ESSENTIAL_TOOLS)

\* tool_name not in ESSENTIAL_TOOLS, negated
IsEssential(tool_name) == tool_name \in Range(ESSENTIAL_TOOLS)

\* tool["function"]["description"] = description[:200] + "..."
Truncated(tool) ==
    Put(tool, "function",
        Put(tool["function"], "description",
            SubSeq(ToolDescription(tool), 1, 200) \o "..."))

\* tool_stats as it is built before the loop
InitialToolStats(list) ==
    [ original_count        |-> Len(list),
      original_size         |-> JsonToolsLen(list),
      removed_duplicates    |-> 0,
      stripped_descriptions |-> 0,
      removed_tools         |-> 0,
      filtered_count        |-> 0,
      filtered_size         |-> 0,
      reduction_pct         |-> [ num |-> 0, den |-> 1 ] ]

\* "Strip verbose descriptions" and the two lines that keep the tool: the
\* k-th tool of the caller's list is appended, truncated in place when its
\* description is long
KeepTool(acc, k, tool, cfg) ==
    LET Kept(kept, stripped) ==
            [ tools          |-> [ acc.tools EXCEPT ![k] = kept ],
              filtered_tools |-> Append(acc.filtered_tools, kept),
              seen_tools     |-> acc.seen_tools \cup { ToolName(tool) },
              stats          |-> [ acc.stats EXCEPT
                                     !.stripped_descriptions = @ + stripped ] ]
    IN  IF cfg.STRIP_TOOL_DESCRIPTIONS /\ Len(ToolDescription(tool)) > 200
        THEN Kept(Truncated(tool), 1)
        ELSE Kept(tool, 0)

\* a mutant of ToolStep: the long description is counted before the tool is
\* looked at, so a dropped tool is counted as stripped too
ToolStep_CountsBeforeDropping(acc, k, tool, cfg) ==
    LET Counted(a) ==
            IF cfg.STRIP_TOOL_DESCRIPTIONS /\ Len(ToolDescription(tool)) > 200
            THEN [ a EXCEPT !.stats.stripped_descriptions = @ + 1 ]
            ELSE a
    IN  IF /\ cfg.REMOVE_DUPLICATE_TOOLS
           /\ StartsWith(ToolName(tool), "index_")
           /\ From(ToolName(tool), 7) \in acc.seen_tools
        THEN Counted([ acc EXCEPT !.stats.removed_duplicates = @ + 1 ])
        ELSE IF cfg.ESSENTIAL_TOOLS_ONLY /\ ~IsEssential(ToolName(tool))
        THEN Counted([ acc EXCEPT !.stats.removed_tools = @ + 1 ])
        ELSE KeepTool(acc, k, tool, cfg)

\* one pass of "for tool in tools"
ToolStep(acc, k, tool, cfg) ==
    IF /\ cfg.REMOVE_DUPLICATE_TOOLS
       /\ StartsWith(ToolName(tool), "index_")
       /\ From(ToolName(tool), 7) \in acc.seen_tools
    THEN [ acc EXCEPT !.stats.removed_duplicates = @ + 1 ]
    ELSE IF cfg.ESSENTIAL_TOOLS_ONLY /\ ~IsEssential(ToolName(tool))
    THEN [ acc EXCEPT !.stats.removed_tools = @ + 1 ]
    ELSE KeepTool(acc, k, tool, cfg)

RECURSIVE ToolLoop(_, _, _, _)
ToolLoop(list, k, acc, cfg) ==
    IF k > Len(list) THEN acc
    ELSE ToolLoop(list, k + 1, ToolStep(acc, k, list[k], cfg), cfg)

\* "Calculate reduction percentage": (original_size - filtered_size) /
\* original_size * 100, kept as the fraction num / den
ReductionPct(original_size, filtered_size) ==
    IF original_size > 0
    THEN [ num |-> (original_size - filtered_size) * 100, den |-> original_size ]
    ELSE [ num |-> 0, den |-> 1 ]

\* filter_tools(tools, model_name) under the flags cfg: the pair it returns,
\* and the caller's list as the call leaves it
filter_tools(list, name, cfg) ==
    LET Finish(acc) ==
            [ tools |-> acc.tools,
              filtered_tools |-> acc.filtered_tools,
              stats |-> [ acc.stats EXCEPT
                            !.filtered_count = Len(acc.filtered_tools),
                            !.filtered_size  = JsonToolsLen(acc.filtered_tools),
                            !.reduction_pct  =
                                ReductionPct(acc.stats.original_size,
                                             JsonToolsLen(acc.filtered_tools)) ] ]
    IN  IF ~cfg.ENABLE_TOOL_FILTERING
        THEN [ tools |-> list, filtered_tools |-> list,
               stats |-> [ filtered |-> FALSE ] ]
        ELSE Finish(ToolLoop(list, 1,
                             [ tools |-> list, filtered_tools |-> << >>,
                               seen_tools |-> {},
                               stats |-> InitialToolStats(list) ],
                             cfg))

----------------------------------------------------------------------------
(* The inputs of SpecTools *)

RECURSIVE Repeat(_, _)
\* s * n
Repeat(s, n) ==
    LET Twice(half) == half \o half
    IN  IF n = 0 THEN ""
        ELSE IF n % 2 = 0 THEN Twice(Repeat(s, n \div 2))
        ELSE s \o Repeat(s, n - 1)

Tool(name, description) ==
    [ function |-> [ name |-> name, description |-> description ] ]

ToolPool ==
    { Tool(n, "short") : n \in { "read", "index_read", "foo", "index_foo", "" } }
        \cup { Tool("read", Repeat("d", 201)),
               Tool("foo", Repeat("d", 250)),
               Tool("bash", Repeat("d", 200)),
               [ function |-> [ name |-> "read" ] ],
               [ function |-> [ description |-> "short" ] ],
               EmptyDict }

ToolConfigs ==
    { [ DefaultConfig EXCEPT !.ENABLE_TOOL_FILTERING = on,
                             !.REMOVE_DUPLICATE_TOOLS = dedup,
                             !.STRIP_TOOL_DESCRIPTIONS = strip,
                             !.ESSENTIAL_TOOLS_ONLY = essential ] :
        on \in BOOLEAN, dedup \in BOOLEAN, strip \in BOOLEAN, essential \in BOOLEAN }

----------------------------------------------------------------------------
(* SpecTools: a call of filter_tools *)

InitTools ==
    /\ pc = "call"
    /\ config \in ToolConfigs
    /\ model_name \in { "llama3.2:1b", "qwen2.5:7b" }
    /\ tools0 \in Lists(ToolPool, MaxTools)
    /\ tools = tools0
    /\ filtered_tools = << >>
    /\ tool_stats = << >>
    /\ messages0 = << >>
    /\ messages = << >>
    /\ parts = NoParts
    /\ filtered_messages = << >>
    /\ filter_stats = << >>
    /\ refiltered_messages = << >>
    /\ NoRequest

\* filtered_tools, tool_stats = filter_tools(tools, model_name)
FilterToolsCall ==
    /\ pc = "call"
    /\ \E r \in { filter_tools(tools, model_name, config) } :
         /\ tools' = r.tools
         /\ filtered_tools' = r.filtered_tools
         /\ tool_stats' = r.stats
    /\ pc' = "filtered"
    /\ UNCHANGED <<serverVars, config, promptVars, tools0, proxyVars>>

NextTools == FilterToolsCall

SpecTools == InitTools /\ [][NextTools]_vars

----------------------------------------------------------------------------
(* ProxyHandler.proxy_request *)

\* Bytes are modelled by how they decode.  A body is one of
\*   [kind |-> "empty"]                       b""
\*   [kind |-> "object", value, form]         a JSON object; form tells the
\*                                            client's own layout of the bytes
\*                                            from the layout json.dumps writes
\*   [kind |-> "json", value]                 valid JSON that is not an object
\*   [kind |-> "text"]                        UTF-8 text that is not JSON
\*   [kind |-> "binary"]                      bytes that are not UTF-8
\* so that two bodies are the same bytes exactly when they are equal.

\* a mutant of JsonDumps: only the fields the proxy knows are written
JsonDumps_KnownFields(value) ==
    [ kind  |-> "object",
      value |-> [ k \in DOMAIN value \cap { "model", "messages", "tools", "options" }
                    |-> value[k] ],
      form  |-> "dumps" ]

\* json.dumps(data).encode("utf-8")
JsonDumps(value) == [ kind |-> "object", value |-> value, form |-> "dumps" ]

\* json.loads(body.decode("utf-8")) if body else {}: the data, or the
\* exception raised
JsonLoads(b) ==
    CASE b.kind = "empty"  -> [ raised |-> "None", data |-> EmptyDict ]
      [] b.kind = "object" -> [ raised |-> "None", data |-> b.value ]
      [] b.kind = "json"   -> [ raised |-> "AttributeError", data |-> NoData ]
      [] b.kind = "text"   -> [ raised |-> "JSONDecodeError", data |-> NoData ]
      [] b.kind = "binary" -> [ raised |-> "UnicodeDecodeError", data |-> NoData ]

\* a mutant of NegotiateContext: num_ctx is set whether or not it is there
NegotiateContext_Overrides(d, cfg) ==
    LET WithOptions(x) ==
            Put(x, "options", Put(x["options"], "num_ctx", DEFAULT_CONTEXT_SIZE))
    IN  IF ~cfg.AUTO_INCREASE_CONTEXT THEN d
        ELSE WithOptions(IF "options" \in DOMAIN d THEN d
                         ELSE Put(d, "options", EmptyDict))

\* "Automatically increase context window if needed"
NegotiateContext(d, cfg) ==
    LET WithOptions(x) ==
            IF "num_ctx" \in DOMAIN x["options"] THEN x
            ELSE Put(x, "options",
                     Put(x["options"], "num_ctx", DEFAULT_CONTEXT_SIZE))
    IN  IF ~cfg.AUTO_INCREASE_CONTEXT THEN d
        ELSE WithOptions(IF "options" \in DOMAIN d THEN d
                         ELSE Put(d, "options", EmptyDict))

\* "Filter messages for small models": data["messages"] = filtered_messages
FilterMessages(d, cfg) ==
    Put(d, "messages",
        filter_system_prompt(Get(d, "messages", << >>), Get(d, "model", ""),
                             cfg, 0).messages)

\* a mutant of FilterTools: the tools are pruned for small models only
FilterTools_SmallOnly(d, cfg) ==
    IF /\ IsSmallModel(Get(d, "model", ""))
       /\ cfg.ENABLE_TOOL_FILTERING /\ "tools" \in DOMAIN d /\ d["tools"] # << >>
    THEN Put(d, "tools",
             filter_tools(d["tools"], Get(d, "model", ""), cfg).filtered_tools)
    ELSE d

\* "Filter tools to reduce token usage": data["tools"] = filtered_tools
FilterTools(d, cfg) ==
    IF cfg.ENABLE_TOOL_FILTERING /\ "tools" \in DOMAIN d /\ d["tools"] # << >>
    THEN Put(d, "tools",
             filter_tools(d["tools"], Get(d, "model", ""), cfg).filtered_tools)
    ELSE d

\* the transformation of the decoded data, up to the audit sink
Pipeline(d, cfg) == NegotiateContext(FilterTools(FilterMessages(d, cfg), cfg), cfg)

\* what save_filtered_request prints when it has written its files, and when
\* its "except Exception as e" has caught a failure
SavedLine  == "[SAVED] Filtered request saved to: filepath"
FailedLine == "[ERROR] Failed to save filtered request: e"

\* a mutant of save_filtered_request: a failed write is raised to the caller
save_filtered_request_Raises(files, msgs, name, request_data, cfg, write_ok) ==
    IF ~cfg.SAVE_FILTERED_REQUESTS
    THEN [ files |-> files, raised |-> FALSE, printed |-> << >> ]
    ELSE IF write_ok
    THEN [ files   |-> Append(files, [ model |-> name, messages |-> msgs,
                                       request_data |-> request_data ]),
           raised  |-> FALSE,
           printed |-> << SavedLine >> ]
    ELSE [ files |-> files, raised |-> TRUE, printed |-> << >> ]

\* save_filtered_request(messages, model_name, request_data): the files
\* written so far, with this request's added unless the flag is off or the
\* writing fails, what the call printed, and whether the call raised: a
\* failure anywhere in its try block is printed by its "except Exception as
\* e", not raised
save_filtered_request(files, msgs, name, request_data, cfg, write_ok) ==
    IF ~cfg.SAVE_FILTERED_REQUESTS
    THEN [ files |-> files, raised |-> FALSE, printed |-> << >> ]
    ELSE IF write_ok
    THEN [ files   |-> Append(files, [ model |-> name, messages |-> msgs,
                                       request_data |-> request_data ]),
           raised  |-> FALSE,
           printed |-> << SavedLine >> ]
    ELSE [ files |-> files, raised |-> FALSE, printed |-> << FailedLine >> ]

\* a mutant of ChatRoute: every path of the /v1 API is taken for the route
ChatRoute_AnyV1 == "/v1/"

ChatRoute == "/v1/chat/completions"

StatusLine(code)  == [ wrote |-> "status", code |-> code ]
HeaderBlock       == [ wrote |-> "headers" ]
BodyBytes(what)   == [ wrote |-> "body", bytes |-> what ]

\* the handler of "except Exception as e": a 500 with a JSON error body
ErrorResponse == << StatusLine(500), HeaderBlock, BodyBytes("{error: message}") >>

----------------------------------------------------------------------------
(* The inputs of Spec *)

\* an optional field of a request: absent, or there with a value
Absent == << >>
Some(value) == << value >>

\* a dict of the given fields, without the absent ones
DictOf(fields) ==
    [ k \in { f \in DOMAIN fields : fields[f] # Absent } |-> fields[k][1] ]

ChatModels   == { Absent, Some("llama3.2:1b"), Some("qwen2.5:7b") }
ChatMessages ==
    { Absent,
      Some(<< [ role |-> "system", content |-> "<env>e</env>k" ],
              [ role |-> "user", content |-> "hi" ] >>) }
ChatTools ==
    { Absent, Some(<< >>),
      Some(<< Tool("index_read", "short"), Tool("read", Repeat("d", 201)),
              Tool("foo", "short") >>) }
ChatOptions ==
    { Absent, Some(EmptyDict), Some([ temperature |-> 1 ]),
      Some([ num_ctx |-> 4096, temperature |-> 1 ]) }
ChatStreams  == { Absent, Some(TRUE) }

ChatData ==
    { DictOf([ model |-> m, messages |-> ms, tools |-> t, options |-> o,
               stream |-> st ]) :
        m \in ChatModels, ms \in ChatMessages, t \in ChatTools,
        o \in ChatOptions, st \in ChatStreams }

ChatBodies ==
    { [ kind |-> "object", value |-> d, form |-> "client" ] : d \in ChatData }
        \cup { [ kind |-> "empty" ], [ kind |-> "text" ], [ kind |-> "binary" ],
               [ kind |-> "json", value |-> << 1 >> ] }

OtherBodies ==
    { [ kind |-> "empty" ], [ kind |-> "text" ],
      [ kind |-> "object", form |-> "client",
        value |-> [ model |-> "llama3.2:1b",
                    messages |-> << [ role |-> "system", content |-> "k" ] >> ] ] }

Requests ==
    { [ command |-> "POST", path |-> ChatRoute, body |-> b ] : b \in ChatBodies }
        \cup { [ command |-> c, path |-> p, body |-> b ] :
                 c \in { "GET", "POST" }, p \in { "/api/tags", "/v1/models" },
                 b \in OtherBodies }

ProxyConfigs ==
    { [ DefaultConfig EXCEPT !.DISABLE_FILTERING = off,
                             !.ENABLE_TOOL_FILTERING = prune,
                             !.AUTO_INCREASE_CONTEXT = auto,
                             !.SAVE_FILTERED_REQUESTS = save ] :
        off \in BOOLEAN, prune \in BOOLEAN, auto \in BOOLEAN, save \in BOOLEAN }

OkStatuses    == { 200 }
ErrorStatuses == { 404, 500 }
\* what the upstream says in the body of an error response
ErrorBodies   == { "", "{error: model not found}" }

----------------------------------------------------------------------------
(* Spec: proxy_request handling one request *)

Init ==
    /\ pc = "start"
    /\ config \in ProxyConfigs
    /\ request \in Requests
    /\ body = request.body
    /\ data = NoData
    /\ saved = << >>
    /\ sink_log = << >>
    /\ forwarded = << >>
    /\ response = NoResponse
    /\ client = << >>
    /\ model_name = ""
    /\ messages0 = << >>
    /\ messages = << >>
    /\ parts = NoParts
    /\ filtered_messages = << >>
    /\ filter_stats = << >>
    /\ refiltered_messages = << >>
    /\ tools0 = << >>
    /\ tools = << >>
    /\ filtered_tools = << >>
    /\ tool_stats = << >>
    /\ NoServer

\* "Parse and filter for chat completions", the body of the inner try: the
\* data is decoded, transformed, handed to the audit sink and serialised
Transform ==
    /\ pc = "start"
    /\ StartsWith(request.path, ChatRoute)
    /\ JsonLoads(body).raised = "None"
    /\ \E d \in { Pipeline(JsonLoads(body).data, config) }, write_ok \in BOOLEAN :
         \E sink \in { save_filtered_request(saved, d["messages"],
                                             Get(JsonLoads(body).data, "model", ""),
                                             d, config, write_ok) } :
             /\ data' = << d >>
             /\ saved' = sink.files
             /\ sink_log' = sink_log \o sink.printed
             /\ IF sink.raised
                THEN \* an exception of the sink would reach "except Exception"
                     /\ client' = client \o ErrorResponse
                     /\ pc' = "done"
                     /\ UNCHANGED body
                ELSE /\ body' = JsonDumps(d)
                     /\ pc' = "forward"
                     /\ UNCHANGED client
    /\ UNCHANGED <<serverVars, config, promptVars, toolVars, request, forwarded, response>>

\* "except json.JSONDecodeError: pass": the body is left as it was read
DecodeError ==
    /\ pc = "start"
    /\ StartsWith(request.path, ChatRoute)
    /\ JsonLoads(body).raised = "JSONDecodeError"
    /\ pc' = "forward"
    /\ UNCHANGED <<serverVars, config, promptVars, toolVars, proxyVars>>

\* any other exception of the inner try reaches "except Exception as e"
TransformRaises ==
    /\ pc = "start"
    /\ StartsWith(request.path, ChatRoute)
    /\ JsonLoads(body).raised \notin { "None", "JSONDecodeError" }
    /\ client' = client \o ErrorResponse
    /\ pc' = "done"
    /\ UNCHANGED <<serverVars, config, promptVars, toolVars, request, body, data, saved,
                   sink_log, forwarded, response>>

\* a path outside the chat-completion route: nothing is decoded
Bypass ==
    /\ pc = "start"
    /\ ~StartsWith(request.path, ChatRoute)
    /\ pc' = "forward"
    /\ UNCHANGED <<serverVars, config, promptVars, toolVars, proxyVars>>

UpstreamRequest ==
    [ command |-> request.command, path |-> request.path, body |-> body ]

\* urlopen(req) returns a response: its status and headers are sent on
UpstreamResponds ==
    /\ pc = "forward"
    /\ forwarded' = Append(forwarded, UpstreamRequest)
    /\ \E status \in OkStatuses, chunks \in 0..MaxChunks :
         /\ response' = [ outcome |-> "response", status |-> status,
                          chunks |-> chunks ]
         /\ client' = client \o << StatusLine(status), HeaderBlock >>
    /\ pc' = "stream"
    /\ UNCHANGED <<serverVars, config, promptVars, toolVars, request, body, data, saved,
                   sink_log>>

\* a mutant of UpstreamHttpError: the upstream's error is answered as a
\* failure of the proxy
UpstreamHttpError_Masked ==
    /\ pc = "forward"
    /\ forwarded' = Append(forwarded, UpstreamRequest)
    /\ \E code \in ErrorStatuses, said \in ErrorBodies :
         /\ response' = [ outcome |-> "http_error", status |-> code,
                          body |-> said ]
         /\ client' = client \o ErrorResponse
    /\ pc' = "done"
    /\ UNCHANGED <<serverVars, config, promptVars, toolVars, request, body, data, saved,
                   sink_log>>

\* urlopen(req) raises HTTPError: "except HTTPError as e" relays it
UpstreamHttpError ==
    /\ pc = "forward"
    /\ forwarded' = Append(forwarded, UpstreamRequest)
    /\ \E code \in ErrorStatuses, said \in ErrorBodies :
         /\ response' = [ outcome |-> "http_error", status |-> code,
                          body |-> said ]
         /\ client' = client \o << StatusLine(code), HeaderBlock, BodyBytes(said) >>
    /\ pc' = "done"
    /\ UNCHANGED <<serverVars, config, promptVars, toolVars, request, body, data, saved,
                   sink_log>>

\* a mutant of UpstreamUnreachable: the call is made again
UpstreamUnreachable_Retries ==
    /\ pc = "forward"
    /\ Len(forwarded) < 2
    /\ forwarded' = Append(forwarded, UpstreamRequest)
    /\ UNCHANGED <<serverVars, pc, config, promptVars, toolVars, request, body, data, saved,
                   sink_log, response, client>>

\* urlopen(req) raises URLError (no connection): "except Exception as e"
UpstreamUnreachable ==
    /\ pc = "forward"
    /\ forwarded' = Append(forwarded, UpstreamRequest)
    /\ response' = [ outcome |-> "unreachable" ]
    /\ client' = client \o ErrorResponse
    /\ pc' = "done"
    /\ UNCHANGED <<serverVars, config, promptVars, toolVars, request, body, data, saved,
                   sink_log>>

\* "Stream response body": one chunk read and written
StreamChunk ==
    /\ pc = "stream"
    /\ response.chunks > 0
    /\ client' = Append(client, BodyBytes("upstream chunk"))
    /\ response' = [ response EXCEPT !.chunks = @ - 1 ]
    /\ UNCHANGED <<serverVars, pc, config, promptVars, toolVars, request, body, data, saved,
                   sink_log, forwarded>>

\* "if not chunk: break"
StreamEnd ==
    /\ pc = "stream"
    /\ response.chunks = 0
    /\ pc' = "done"
    /\ UNCHANGED <<serverVars, config, promptVars, toolVars, proxyVars>>

\* response.read or wfile.write raises while the body is streamed: "except
\* Exception as e" writes its 500 after what was sent already
StreamRaises ==
    /\ pc = "stream"
    /\ response.chunks > 0
    /\ client' = client \o ErrorResponse
    /\ pc' = "done"
    /\ UNCHANGED <<serverVars, config, promptVars, toolVars, request, body, data, saved,
                   sink_log, forwarded, response>>

Next ==
    \/ Transform
    \/ DecodeError
    \/ TransformRaises
    \/ Bypass
    \/ UpstreamResponds
    \/ UpstreamHttpError
    \/ UpstreamUnreachable
    \/ StreamChunk
    \/ StreamEnd
    \/ StreamRaises

Spec == Init /\ [][Next]_vars

----------------------------------------------------------------------------
(* SpecServer: main's HTTPServer serving connections *)

\* HTTPServer(server_address, ProxyHandler).serve_forever() is the
\* socketserver loop: a connection is accepted, ProxyHandler handles its
\* request to the end (do_GET and do_POST call proxy_request) in the loop's
\* own thread, and only then is the next connection accepted.  Connections
\* made meanwhile wait in the listening socket's backlog.

Conns == 1..MaxConns

\* the filter functions and the one-request view of proxy_request are idle
NoCall ==
    /\ pc = "serve"
    /\ config = DefaultConfig
    /\ model_name = ""
    /\ messages0 = << >>
    /\ messages = << >>
    /\ parts = NoParts
    /\ filtered_messages = << >>
    /\ filter_stats = << >>
    /\ refiltered_messages = << >>
    /\ tools0 = << >>
    /\ tools = << >>
    /\ filtered_tools = << >>
    /\ tool_stats = << >>
    /\ request = "NoRequest"
    /\ body = ""
    /\ data = NoData
    /\ saved = << >>
    /\ sink_log = << >>
    /\ forwarded = << >>
    /\ response = NoResponse
    /\ client = << >>

InitServer ==
    /\ NoCall
    /\ backlog = << >>
    /\ current = 0
    /\ stage = [ c \in Conns |-> "none" ]

idle == <<pc, config, promptVars, toolVars, proxyVars>>

\* a client connects and sends its request
Connect ==
    \E c \in Conns :
        /\ stage[c] = "none"
        /\ stage' = [ stage EXCEPT ![c] = "connected" ]
        /\ backlog' = Append(backlog, c)
        /\ UNCHANGED <<current, idle>>

\* the loop accepts the next connection, once the handler of the one before
\* has returned
AcceptRequest ==
    /\ current = 0
    /\ backlog # << >>
    /\ current' = Head(backlog)
    /\ backlog' = Tail(backlog)
    /\ stage' = [ stage EXCEPT ![Head(backlog)] = "reading" ]
    /\ UNCHANGED idle

\* proxy_request has read the body (and transformed it) and calls urlopen
CallUpstream ==
    /\ current # 0
    /\ stage[current] = "reading"
    /\ stage' = [ stage EXCEPT ![current] = "upstream" ]
    /\ UNCHANGED <<backlog, current, idle>>

\* urlopen returns a response: the body is streamed
UpstreamAnswers ==
    /\ current # 0
    /\ stage[current] = "upstream"
    /\ stage' = [ stage EXCEPT ![current] = "streaming" ]
    /\ UNCHANGED <<backlog, current, idle>>

\* urlopen raises: the error is written, and the handler returns
UpstreamFails ==
    /\ current # 0
    /\ stage[current] = "upstream"
    /\ stage' = [ stage EXCEPT ![current] = "failed" ]
    /\ current' = 0
    /\ UNCHANGED <<backlog, idle>>

\* the body has been streamed to its end, and the handler returns
Respond ==
    /\ current # 0
    /\ stage[current] = "streaming"
    /\ stage' = [ stage EXCEPT ![current] = "responded" ]
    /\ current' = 0
    /\ UNCHANGED <<backlog, idle>>

NextServer ==
    \/ Connect
    \/ AcceptRequest
    \/ CallUpstream
    \/ UpstreamAnswers
    \/ UpstreamFails
    \/ Respond

SpecServer == InitServer /\ [][NextServer]_vars

----------------------------------------------------------------------------
(* Properties of filter_system_prompt, checked under SpecPrompt *)

\* the call filters: filtering is enabled and the model is a small one
Filtering == ~config.DISABLE_FILTERING /\ IsSmallModel(model_name)

RoleOf(msg) == Get(msg, "role", "None")

Names(removed) == [ k \in 1..Len(removed) |-> removed[k].name ]

\* the call was given one system message, and has returned
OneSystemPrompt ==
    /\ pc = "filtered"
    /\ Len(messages0) = 1
    /\ RoleOf(messages0[1]) = "system"
    /\ "content" \in DOMAIN messages0[1]

\* the call was given the end-to-end scenario, and has returned
C1_ScenarioFiltered ==
    /\ OneSystemPrompt
    /\ messages0[1].content = Scenario
    /\ model_name = "llama3.2:1b"
    /\ ~config.DISABLE_FILTERING

\* C1 as stated: for the system content
\* "<project>tree</project><env>e</env>Instructions from: x\nhello" and model
\* "llama3.2:1b" the returned content is "hello", a blank line and the stub,
\* and sections_removed names project, env, instructions in that order.
C1_ScenarioKeepsHello ==
    C1_ScenarioFiltered =>
        /\ filtered_messages =
               << [ role |-> "system", content |-> "hello\n\n" \o minimal_env ] >>
        /\ Names(filter_stats.sections_removed) = << "project", "env", "instructions" >>

\* C1 as amended: for that system content and model the returned content is
\* the stub alone (the instruction block runs from its label to the next blank
\* line or the end of the string, so it takes "\nhello" with it), and
\* sections_removed names project, env, instructions in that order.
C1_ScenarioLeavesStub ==
    C1_ScenarioFiltered =>
        /\ filtered_messages = << [ role |-> "system", content |-> minimal_env ] >>
        /\ Names(filter_stats.sections_removed) = << "project", "env", "instructions" >>

C1_Witness ==
    /\ C1_ScenarioFiltered
    /\ Len(filter_stats.sections_removed) = 3

\* C2: the rewrite is idempotent: applying filter_system_prompt to the
\* messages it returned for a small model changes no message content.
C2_Idempotent ==
    (pc = "refiltered" /\ Filtering) => refiltered_messages = filtered_messages

\* the call passed its input through: filtering is disabled or the model is
\* not a small one
C3_PassedThrough ==
    /\ pc = "filtered"
    /\ (config.DISABLE_FILTERING \/ ~IsSmallModel(model_name))

\* C3 as stated: with filtering disabled, or a model that is not small, the
\* messages are returned unchanged, is_small_model is the classifier's result
\* and every other statistic is zero or empty.
C3_EveryOtherStatZero ==
    C3_PassedThrough =>
        /\ filtered_messages = messages0
        /\ filter_stats.is_small_model = IsSmallModel(model_name)
        /\ filter_stats.sections_removed = << >>
        /\ filter_stats.original_size = 0
        /\ filter_stats.filtered_size = 0
        /\ filter_stats.time_ms = 0
        /\ filter_stats.total_messages = 0
        /\ filter_stats.message_breakdown = << >>

\* C3 as amended: with filtering disabled, or a model that is not small, the
\* messages are returned unchanged, is_small_model is the classifier's result,
\* total_messages is the number of input messages and every other statistic
\* is zero or empty.
C3_PassthroughStats ==
    C3_PassedThrough =>
        /\ filtered_messages = messages0
        /\ filter_stats.is_small_model = IsSmallModel(model_name)
        /\ filter_stats.sections_removed = << >>
        /\ filter_stats.original_size = 0
        /\ filter_stats.filtered_size = 0
        /\ filter_stats.time_ms = 0
        /\ filter_stats.total_messages = Len(messages0)
        /\ filter_stats.message_breakdown = << >>

\* filtering is disabled for a small model, and the input has a system message
C3_Witness ==
    /\ C3_PassedThrough
    /\ config.DISABLE_FILTERING
    /\ filter_stats.is_small_model
    /\ \E k \in 1..Len(messages0) : RoleOf(messages0[k]) = "system"

\* C4: the output has as many messages as the input, in the same order, and
\* every message whose role is not system equals the input message at its
\* position.
C4_OthersPassThrough ==
    pc = "filtered" =>
        /\ Len(filtered_messages) = Len(messages0)
        /\ \A k \in 1..Len(messages0) :
             /\ RoleOf(filtered_messages[k]) = RoleOf(messages0[k])
             /\ RoleOf(messages0[k]) # "system" => filtered_messages[k] = messages0[k]

\* a filtering call that rewrote a system message next to another message
C4_Witness ==
    /\ pc = "filtered"
    /\ Filtering
    /\ Len(filtered_messages) = 2
    /\ \E k, j \in 1..2 :
         /\ RoleOf(messages0[k]) = "system"
         /\ filtered_messages[k] # messages0[k]
         /\ RoleOf(messages0[j]) = "user"

\* content with the span of match m cut out, and nothing else
CutSpan(content, m) ==
    IF m.found THEN SubSeq(content, 1, m.start - 1) \o From(content, m.end + 1)
    ELSE content

SizeRecord(name, content, m) ==
    IF m.found THEN << [ name |-> name, size |-> Len(Group0(content, m)) ] >>
    ELSE << >>

\* the rewrite that removes the first occurrence of each section and no other
FirstOccurrenceRewrite(c0) ==
    LET pm == TagSearch(c0, "<project>", "</project>")
        c1 == CutSpan(c0, pm)
        em == TagSearch(c1, "<env>", "</env>")
        c2 == CutSpan(c1, em)
        im == InstructionsSearch(c2)
        c3 == CutSpan(c2, im)
    IN  Removal(AppendMinimalEnv(c3),
                SizeRecord("project", c0, pm) \o SizeRecord("env", c1, em)
                    \o SizeRecord("instructions", c2, im))

\* C9: for each section kind only the first occurrence is removed from a
\* system message, the size recorded is the size of the text removed for that
\* kind, and later occurrences stay in the content.
C9_OnlyFirstOccurrenceRemoved ==
    (OneSystemPrompt /\ Filtering) =>
        /\ filtered_messages[1].content =
               FirstOccurrenceRewrite(messages0[1].content).content
        /\ filter_stats.sections_removed =
               FirstOccurrenceRewrite(messages0[1].content).removed

\* the call was given a prompt made of sections with unrelated text around
\* them, and has returned
C10_StructuredFiltered == OneSystemPrompt /\ parts # NoParts

\* C10 as stated: the characters outside the sections appear in the rewritten
\* content unchanged and in order, followed only by the appended stub (with or
\* without the blank line before it).
C10_OutsideUnchanged ==
    C10_StructuredFiltered =>
        filtered_messages[1].content \in
            { Outside(parts) \o minimal_env,
              Outside(parts) \o "\n\n" \o minimal_env }

\* C10 as amended: the characters outside the sections appear in the
\* rewritten content unchanged and in order, except that white space at the
\* start and at the end of what remains is stripped; a blank line and the stub
\* follow, and the stub alone is the content when only white space remains.
C10_OutsideStripped ==
    C10_StructuredFiltered =>
        filtered_messages[1].content =
            IF Strip(Outside(parts)) = "" THEN minimal_env
            ELSE Strip(Outside(parts)) \o "\n\n" \o minimal_env

\* all three sections were there, with text before, between and after them
C10_Witness ==
    /\ C10_StructuredFiltered
    /\ parts.project # "" /\ parts.env # "" /\ parts.instructions # ""
    /\ parts.t0 # "" /\ parts.t1 # "" /\ parts.t2 # "" /\ parts.t3 # ""
    /\ Len(filter_stats.sections_removed) = 3

----------------------------------------------------------------------------
(* Properties of filter_tools, checked under SpecTools *)

\* filter_tools has returned, and tool filtering is enabled
ToolsFiltered == pc = "filtered" /\ config.ENABLE_TOOL_FILTERING

NamesOf(list) == [ k \in 1..Len(list) |-> ToolName(list[k]) ]

\* C5: when essential-only mode is active, every tool in the output of
\* filter_tools has a name that is in ESSENTIAL_TOOLS, whatever the input and
\* whatever the deduplication and truncation flags.
C5_OutputWithinAllowList ==
    (ToolsFiltered /\ config.ESSENTIAL_TOOLS_ONLY) =>
        \A k \in 1..Len(filtered_tools) :
            \E e \in 1..Len(ESSENTIAL_TOOLS) :
                ToolName(filtered_tools[k]) = ESSENTIAL_TOOLS[e]

\* essential-only mode dropped a tool that is not essential, an index_ wrapper
\* or a tool without a name, and kept another
C5_Witness ==
    /\ ToolsFiltered
    /\ config.ESSENTIAL_TOOLS_ONLY
    /\ Len(tools0) = 2
    /\ Len(filtered_tools) = 1
    /\ \E k \in 1..2 : ToolName(tools0[k]) \in { "foo", "index_read", "" }

\* C6: with deduplication enabled, whatever the essential-only flag, the list
\* [index_X, X] keeps exactly one of the two tools and the list [X, index_X]
\* keeps exactly X.
C6_DedupKeepsOneOfPair ==
    (ToolsFiltered /\ config.REMOVE_DUPLICATE_TOOLS /\ Len(tools0) = 2) =>
        /\ ToolName(tools0[1]) = "index_" \o ToolName(tools0[2])
               => Len(filtered_tools) = 1
        /\ ToolName(tools0[2]) = "index_" \o ToolName(tools0[1])
               => NamesOf(filtered_tools) = << ToolName(tools0[1]) >>

HasName(tool) == "name" \in DOMAIN Get(tool, "function", EmptyDict)

\* C7: the names of the tools in the output of filter_tools are pairwise
\* distinct, whatever the input (two tools that both have a name never have
\* the same one).
C7_OutputNamesDistinct ==
    ToolsFiltered =>
        \A j, k \in 1..Len(filtered_tools) :
            (j # k /\ HasName(filtered_tools[j]) /\ HasName(filtered_tools[k]))
                => filtered_tools[j].function.name # filtered_tools[k].function.name


----------------------------------------------------------------------------
(* Properties of proxy_request, checked under Spec *)

\* the request was decoded and transformed, and has been sent upstream
TransformedAndSent ==
    /\ forwarded # << >>
    /\ body.kind = "object"
    /\ body.form = "dumps"

OptionsOf(d) == Get(d, "options", EmptyDict)

\* the request as proxy_request decoded it
Decoded == JsonLoads(request.body).data

\* C8: context-size negotiation never overrides a caller value.  Whenever a
\* decoded request has been sent upstream, every option key of the request
\* as decoded, num_ctx among them, is in the options sent with the value it
\* had; the only key the options sent can have beyond those is num_ctx,
\* with the value DEFAULT_CONTEXT_SIZE, and an options mapping is only made
\* for a request without one by the negotiation.
C8_NegotiationKeepsCallerValues ==
    TransformedAndSent =>
        /\ \A k \in DOMAIN OptionsOf(Decoded) :
             /\ k \in DOMAIN OptionsOf(forwarded[1].body.value)
             /\ OptionsOf(forwarded[1].body.value)[k]
                    = OptionsOf(Decoded)[k]
        /\ \A k \in DOMAIN OptionsOf(forwarded[1].body.value) :
             k \notin DOMAIN OptionsOf(Decoded) =>
                 /\ k = "num_ctx"
                 /\ OptionsOf(forwarded[1].body.value)[k] = DEFAULT_CONTEXT_SIZE
                 /\ config.AUTO_INCREASE_CONTEXT
        /\ ("options" \in DOMAIN forwarded[1].body.value
                /\ "options" \notin DOMAIN Decoded)
               => config.AUTO_INCREASE_CONTEXT

\* a request that came with its own num_ctx (not the default size) and other
\* options has been negotiated and sent upstream
C8_Witness ==
    /\ TransformedAndSent
    /\ config.AUTO_INCREASE_CONTEXT
    /\ "num_ctx" \in DOMAIN OptionsOf(Decoded)
    /\ OptionsOf(Decoded)["num_ctx"] # DEFAULT_CONTEXT_SIZE
    /\ "temperature" \in DOMAIN OptionsOf(Decoded)
    /\ OptionsOf(forwarded[1].body.value)["num_ctx"] = 4096


----------------------------------------------------------------------------
(* Unclosed sections, checked under SpecPrompt *)

\* pat is in s at position i
HasAt(s, pat, i) == i + Len(pat) - 1 <= Len(s) /\ SubSeq(s, i, i + Len(pat) - 1) = pat

\* s has the opening tag, and no opening tag of s has the closing tag after it
Unclosed(s, open, close) ==
    /\ \E i \in 1..Len(s) : HasAt(s, open, i)
    /\ \A i \in 1..Len(s) : \A j \in 1..Len(s) :
           ~(HasAt(s, open, i) /\ HasAt(s, close, j) /\ j >= i + Len(open))

Recorded(name) == \E k \in DOMAIN filter_stats.sections_removed :
                      filter_stats.sections_removed[k].name = name

\* C11: when the system message has an opening <project> (or <env>) tag and
\* no closing tag after it, the call returns without recording a removal
\* named project (or env), and when the message has no other section either,
\* its text is all there in the result, from the opening tag to the end of
\* the string (stripped, with the stub after it).
C11_UnclosedTreatedAsAbsent ==
    (OneSystemPrompt /\ Filtering /\ "content" \in DOMAIN messages0[1]) =>
        /\ Unclosed(messages0[1].content, "<project>", "</project>")
               => ~Recorded("project")
        /\ Unclosed(messages0[1].content, "<env>", "</env>")
               => ~Recorded("env")
        /\ ( /\ \/ Unclosed(messages0[1].content, "<project>", "</project>")
                \/ Unclosed(messages0[1].content, "<env>", "</env>")
             /\ filter_stats.sections_removed = << >> )
               => filtered_messages[1].content
                      = Strip(messages0[1].content) \o "\n\n" \o minimal_env


----------------------------------------------------------------------------
(* Failures of the transformation, checked under Spec *)

\* the request is to the chat-completion route
ToChatRoute == StartsWith(request.path, "/v1/chat/completions")

\* the handling is past the upstream call, or has ended without one
Handled == pc \in { "stream", "done" }

\* one request went upstream, with the bytes the client sent
OriginalForwarded ==
    forwarded = << [ command |-> request.command, path |-> request.path,
                     body |-> request.body ] >>

\* C12: a body sent to the chat-completion route that does not decode to
\* JSON, whatever its bytes (text that is not JSON, bytes that are not
\* UTF-8), does not abort the request: once the request is handled, the
\* original bytes have gone upstream.
C12_UndecodableBodyForwarded ==
    (ToChatRoute /\ request.body.kind \in { "text", "binary" } /\ Handled)
        => OriginalForwarded

\* C13: when the transformation fails for another reason than a JSON decode
\* error (here: the body is valid JSON and not an object), the proxy falls
\* back to forwarding the original body: once the request is handled, the
\* original bytes have gone upstream.
C13_FailedTransformFallsBack ==
    (ToChatRoute /\ JsonLoads(request.body).raised = "AttributeError" /\ Handled)
        => OriginalForwarded


----------------------------------------------------------------------------
(* Routing, the upstream call and the audit sink, checked under Spec *)

\* the request as it came, as an upstream request
AsReceived ==
    [ command |-> request.command, path |-> request.path, body |-> request.body ]

\* C14: for a GET or POST request whose path does not begin with
\* /v1/chat/completions, the body is never decoded (so nothing is rewritten,
\* pruned or injected), nothing is written by the audit sink, and whatever
\* goes upstream carries the bytes received.
C14_OtherRoutesUntouched ==
    ~ToChatRoute =>
        /\ data = NoData
        /\ saved = << >>
        /\ body = request.body
        /\ \A k \in DOMAIN forwarded : forwarded[k] = AsReceived

\* a request to another route, with a body the pipeline would have changed,
\* has gone upstream
C14_Witness ==
    /\ ~ToChatRoute
    /\ request.path = "/v1/models"
    /\ request.body.kind = "object"
    /\ forwarded # << >>

\* C15: the upstream is contacted at most once for a request, and when that
\* call fails with a connection error the client has received a 500 with a
\* JSON body {error: message}, and nothing else.
C15_OneUpstreamCall ==
    /\ Len(forwarded) <= 1
    /\ response.outcome = "unreachable" =>
           /\ pc = "done"
           /\ client = << [ wrote |-> "status", code |-> 500 ],
                          [ wrote |-> "headers" ],
                          [ wrote |-> "body", bytes |-> "{error: message}" ] >>

\* the one upstream call of a request failed with a connection error
C15_Witness ==
    /\ response.outcome = "unreachable"
    /\ Len(forwarded) = 1
    /\ pc = "done"

\* C16: when the upstream answers with an HTTP error status, the client has
\* received that status code and the upstream's error body, and no 500 made
\* by the proxy.
C16_ErrorStatusRelayed ==
    response.outcome = "http_error" =>
        client = << [ wrote |-> "status", code |-> response.status ],
                    [ wrote |-> "headers" ],
                    [ wrote |-> "body", bytes |-> response.body ] >>

\* the upstream answered 404 with a body of its own
C16_Witness ==
    /\ response.outcome = "http_error"
    /\ response.status = 404
    /\ response.body # ""
    /\ pc = "done"

\* the audit sink was to write this request's files, and the writing failed
AuditFailed ==
    /\ config.SAVE_FILTERED_REQUESTS
    /\ data # NoData
    /\ saved = << >>

\* C17: a failure of the audit write stays inside the audit sink.  The
\* body is the serialised transformed data, as it is when the write
\* succeeds; no error has been written to the client before the upstream
\* call; and the request does not end without having gone upstream with that
\* body.
C17_AuditFailureRecovered ==
    AuditFailed =>
        /\ data = << Pipeline(Decoded, config) >>
        /\ body = [ kind |-> "object", value |-> data[1], form |-> "dumps" ]
        /\ pc = "forward" => client = << >>
        /\ pc \in { "stream", "done" } =>
               forwarded = << [ command |-> request.command, path |-> request.path,
                                body |-> body ] >>

\* the audit write failed, and the upstream's response is being relayed
C17_Witness ==
    /\ AuditFailed
    /\ response.outcome = "response"
    /\ client # << >>

\* C19: for a transformed request, every top-level field of the decoded
\* object other than messages, tools and options is in the forwarded body
\* with the value it had.
C19_UnknownFieldsPreserved ==
    TransformedAndSent =>
        \A k \in DOMAIN Decoded \ { "messages", "tools", "options" } :
            /\ k \in DOMAIN forwarded[1].body.value
            /\ forwarded[1].body.value[k] = Decoded[k]

\* a request with a field the proxy does not know, and a system prompt that
\* was rewritten, has gone upstream
C19_Witness ==
    /\ TransformedAndSent
    /\ "stream" \in DOMAIN Decoded
    /\ "model" \in DOMAIN Decoded
    /\ "messages" \in DOMAIN Decoded
    /\ forwarded[1].body.value["messages"] # Decoded["messages"]

StatusLinesWritten == { k \in DOMAIN client : client[k].wrote = "status" }

\* C20: the client sees one response, never a mixture of two: a status line
\* is written at most once for a request, also when a failure comes after
\* the upstream's status and headers were sent.
C20_OneStatusLine == Cardinality(StatusLinesWritten) <= 1


----------------------------------------------------------------------------
(* Concurrent requests, checked under SpecServer *)

\* the request of connection c is in one of its blocking operations
Blocking(c) == stage[c] \in { "reading", "upstream", "streaming" }

\* C18: the blocking operations of one request do not block other
\* requests: whenever a request is being read, is waiting on the upstream
\* or is being streamed, and another connection is waiting, the server can
\* accept that connection.
C18_OthersNotBlocked ==
    \A c \in Conns :
        (current = c /\ Blocking(c) /\ backlog # << >>) => ENABLED AcceptRequest


----------------------------------------------------------------------------
(* The stub and the statistics of several system messages, checked under
   SpecPrompt *)

\* the call has returned, and it filtered
CallFiltered == pc = "filtered" /\ Filtering

ContentOf(msg) == Get(msg, "content", "")

\* what is left of a system prompt when its sections are taken out
Remaining(c) ==
    InstructionsSub(TagSub(TagSub(c, "<project>", "</project>"), "<env>", "</env>"))

\* the indices of the system messages of the call
SystemIndices == { k \in DOMAIN messages0 : RoleOf(messages0[k]) = "system" }

\* C21 as it is stated: the content of every system message is the stub
\* alone when nothing or only whitespace is left after the removals, and
\* otherwise what is left, as it is, then a blank line, then the stub.
C21_RemainderThenStub ==
    CallFiltered =>
        \A k \in SystemIndices :
            filtered_messages[k].content
                = IF Strip(Remaining(ContentOf(messages0[k]))) = ""
                  THEN minimal_env
                  ELSE Remaining(ContentOf(messages0[k])) \o "\n\n" \o minimal_env

\* C21, amended: the content of every system message is the stub alone when
\* nothing or only whitespace is left after the removals, and otherwise what
\* is left with the whitespace at its two ends stripped, then a blank line,
\* then the stub.
C21_StrippedRemainderThenStub ==
    CallFiltered =>
        \A k \in SystemIndices :
            filtered_messages[k].content
                = IF Strip(Remaining(ContentOf(messages0[k]))) = ""
                  THEN minimal_env
                  ELSE Strip(Remaining(ContentOf(messages0[k])))
                           \o "\n\n" \o minimal_env

\* a section was removed from a system prompt, and text with whitespace at
\* an end is what remains
C21_Witness ==
    /\ CallFiltered
    /\ OneSystemPrompt
    /\ filter_stats.sections_removed # << >>
    /\ Strip(Remaining(ContentOf(messages0[1]))) # ""
    /\ Strip(Remaining(ContentOf(messages0[1]))) # Remaining(ContentOf(messages0[1]))

RECURSIVE RemovalsUpTo(_)
\* the removals of the system messages among the first k messages, in order
RemovalsUpTo(k) ==
    IF k = 0 THEN << >>
    ELSE RemovalsUpTo(k - 1)
             \o (IF k \in SystemIndices
                 THEN RewriteContent(ContentOf(messages0[k])).removed
                 ELSE << >>)

LastSystemIndex == CHOOSE k \in SystemIndices : \A j \in SystemIndices : j <= k

\* C22: every system message of the list is rewritten; original_size and
\* filtered_size are the sizes of the last system message before and after
\* its rewriting, and 0 when the list has no system message; and
\* sections_removed holds the removals of all system messages in the order
\* of processing.
C22_StatsOfLastSystemMessage ==
    CallFiltered =>
        /\ \A k \in SystemIndices :
               /\ "content" \in DOMAIN filtered_messages[k]
               /\ filtered_messages[k].content
                      = AppendMinimalEnv(Remaining(ContentOf(messages0[k])))
        /\ SystemIndices = {} =>
               /\ filter_stats.original_size = 0
               /\ filter_stats.filtered_size = 0
        /\ SystemIndices # {} =>
               /\ filter_stats.original_size
                      = Len(ContentOf(messages0[LastSystemIndex]))
               /\ filter_stats.filtered_size
                      = Len(filtered_messages[LastSystemIndex].content)
        /\ filter_stats.sections_removed = RemovalsUpTo(Len(messages0))

\* two system messages of different sizes, each with a section to remove
C22_Witness ==
    /\ CallFiltered
    /\ Cardinality(SystemIndices) = 2
    /\ Len(filter_stats.sections_removed) = 1
    /\ ContentOf(messages0[1]) # ContentOf(messages0[2])
    /\ filter_stats.original_size = Len(ContentOf(messages0[2]))


----------------------------------------------------------------------------
(* The accounting and the sizes of filter_tools, checked under SpecTools *)

\* out is list with some of its elements left out
IsSubsequence(out, list) ==
    \E at \in [ DOMAIN out -> DOMAIN list ] :
        /\ \A i \in DOMAIN out : out[i] = list[at[i]]
        /\ \A i \in DOMAIN out : \A j \in DOMAIN out : i < j => at[i] < at[j]

\* the positions of the caller's list whose tool the call truncated
TruncatedAt == { k \in DOMAIN tools0 : tools[k] # tools0[k] }

\* C23: the accounting of filter_tools is exact.  The output is the
\* caller's list with the dropped tools left out; every tool of the input is
\* kept or counted once, as a duplicate or as a removed tool; and
\* stripped_descriptions is the number of tools that were truncated, each of
\* which is in the output.
C23_AccountingExact ==
    ToolsFiltered =>
        /\ tool_stats.original_count = Len(tools0)
        /\ tool_stats.filtered_count = Len(filtered_tools)
        /\ IsSubsequence(filtered_tools, tools)
        /\ tool_stats.original_count
               = tool_stats.filtered_count + tool_stats.removed_duplicates
                     + tool_stats.removed_tools
        /\ tool_stats.stripped_descriptions = Cardinality(TruncatedAt)
        /\ \A k \in TruncatedAt : tools[k] \in Range(filtered_tools)
        /\ tool_stats.stripped_descriptions <= tool_stats.filtered_count

\* a tool was kept with its description truncated, and another was dropped
C23_Witness ==
    /\ ToolsFiltered
    /\ Len(tools0) = 2
    /\ tool_stats.stripped_descriptions = 1
    /\ tool_stats.filtered_count = 1
    /\ tool_stats.removed_duplicates + tool_stats.removed_tools = 1

\* C24: filter_tools never makes the tool list larger: no tool of the
\* caller's list has a longer description after the call than before,
\* filtered_size is at most original_size, and the reduction percentage is
\* not negative.
C24_NeverLarger ==
    ToolsFiltered =>
        /\ \A k \in DOMAIN tools0 :
               Len(ToolDescription(tools[k])) <= Len(ToolDescription(tools0[k]))
        /\ tool_stats.filtered_size <= tool_stats.original_size
        /\ tool_stats.reduction_pct.num >= 0


----------------------------------------------------------------------------
(* What the classifier gates, checked under Spec *)

\* the request was transformed, and its system prompts were not to be
\* rewritten: filtering is disabled, or the model is not a small one
NotRewritten ==
    /\ data # NoData
    /\ \/ config.DISABLE_FILTERING
       \/ ~IsSmallModel(Get(Decoded, "model", ""))

====
